---- MODULE Spec2Model ----
(***************************************************************************)
(* Daylight MIRcat control panels of the Control_System frontend:          *)
(*   - LaserSettingsPanel : pulse rate / pulse width duty-cycle coupling   *)
(*   - ScanModePanel      : scan start/stop, loop-count derivation from    *)
(*                          status telemetry, unit conversion and range    *)
(*                          validation of the scan settings and the        *)
(*                          multispectral entry list                       *)
(*   - TuningControls     : tune wavenumber validation                     *)
(* Each panel is a React component; its useState/useRef cells are the      *)
(* variables below and every event handler is one action.                  *)
(*                                                                         *)
(* Numbers.  TLC integers are 32 bit.  Pulse rates (Hz) and widths (ns)    *)
(* are integers as in the code.  Wavenumbers and wavelengths are doubles   *)
(* in the code and fixed-point integers here, in units of 1/Scale          *)
(* (1850.0 cm-1 is 18500000, 4.81 um is 48100); a division is rounded to   *)
(* the nearest representable value as an IEEE division is.                 *)
(***************************************************************************)
EXTENDS Integers, Sequences, FiniteSets, TLC

VARIABLES
  \* LaserSettingsPanel
  laserParams,            \* [pulseRate, pulseWidth] of useState laserParams
  laserFocus,             \* which pulse field holds the input focus
  \* ScanModePanel
  deviceStatus,           \* the deviceStatus prop (last status received)
  selectedScanMode,
  units,
  scanSettings,
  multiSpectralEntries,
  nextId,
  numberOfScans,          \* the multispectral card's own useState
  infiniteScans,
  loading,
  error,
  pending,                \* device requests awaiting their response
  loopCount,
  prevPercentRef,
  prevInProgressRef,
  msBaselineScanNumRef,
  msElementsRef,
  prevModeRef,
  scanFocus,              \* which scan-settings field holds the input focus
  \* TuningControls
  tuneWavenumber,
  tuneUnits,
  tuneFocus,              \* whether the Target field holds the input focus
  loadingTune,            \* loading of TuningControls
  errorTune,              \* error of TuningControls
  snackbarMessage,
  \* DaylightMIRcatView
  loadingView,            \* loading of DaylightMIRcatView
  errorView,              \* error of DaylightMIRcatView
  commands,               \* device calls of these two awaiting their response
  \* repeated application of the correcting functions
  clampArgs,              \* [value, min, max]: the arguments of clamp
  clampTrail,             \* clamp(value), clamp(clamp(value)), ...
  validateTrail           \* the same for validateAndCorrectValue

laserVars == <<laserParams, laserFocus>>
loopVars == <<loopCount, prevPercentRef, prevInProgressRef,
              msBaselineScanNumRef, msElementsRef, prevModeRef>>
settingsVars == <<units, scanSettings, scanFocus>>
entryVars == <<multiSpectralEntries, nextId>>
requestVars == <<loading, error, pending>>
countVars == <<numberOfScans, infiniteScans>>
scanVars == <<deviceStatus, selectedScanMode, settingsVars, entryVars,
              countVars, requestVars, loopVars>>
tuneVars == <<tuneWavenumber, tuneUnits, tuneFocus>>
clampVars == <<clampArgs, clampTrail, validateTrail>>
workflowVars == <<loadingTune, errorTune, snackbarMessage, loadingView,
                  errorView, commands>>
\* the state outside ScanModePanel
outsideVars == <<clampVars, laserVars, workflowVars, tuneVars>>
vars == <<laserVars, scanVars, tuneVars, clampVars, workflowVars>>

\* JavaScript null / undefined
NULL == "null"

Max(a, b) == IF a >= b THEN a ELSE b
Min(a, b) == IF a <= b THEN a ELSE b

(***************************************************************************)
(* LaserSettingsPanel                                                      *)
(***************************************************************************)
MinPulseRate == 10
MaxPulseRate == 3000000
MinPulseWidth == 20
MaxPulseWidth == 1000
DefaultPulseRate == 2000000
DefaultPulseWidth == 150
\* 30 * 1000000000 / 100: the product rate * width at a duty cycle of 30 %
ThirtyPercentProduct == 300000000
\* base of the two-digit representation of rate * width (it exceeds 32 bits)
DutyBase == 10000

\* parseInt(e.target.value) || 0 of the values a user types in the two fields
PulseRateInputs ==
  {-5, 0, 9, 10, 300000, 300001, 1500000, 2000000, 3000000, 3000001}
PulseWidthInputs == {-5, 0, 19, 20, 100, 101, 150, 151, 500, 1000, 1001}

\* (pulseRate * pulseWidth) / 1000000000 * 100 as the exact pair <<q, r>> with
\* pulseRate * pulseWidth = q * DutyBase + r, i.e. the duty cycle is
\* q / 1000 percent plus r / 10^7 percent.  The double the code computes is
\* > 30 exactly when the product is > 3 * 10^8 (300000000 / 1e9 * 100 is 30
\* in IEEE arithmetic and products are integers).
calculateDutyCycle(pulseRate, pulseWidth) ==
  LET hi == (pulseRate \div DutyBase) * pulseWidth
      lo == (pulseRate % DutyBase) * pulseWidth
  IN  <<hi + (lo \div DutyBase), lo % DutyBase>>

\* duty > 30
DutyExceedsLimit(duty) ==
  \/ duty[1] > ThirtyPercentProduct \div DutyBase
  \/ duty[1] = ThirtyPercentProduct \div DutyBase /\ duty[2] > 0

\* (mutation: the upper bound is not enforced)
validateAndCorrectParameterNoUpper(value, param) ==
  LET lo == IF param = "pulseRate" THEN MinPulseRate ELSE MinPulseWidth
  IN  IF value < lo THEN lo ELSE value

validateAndCorrectParameter(value, param) ==
  LET lo == IF param = "pulseRate" THEN MinPulseRate ELSE MinPulseWidth
      hi == IF param = "pulseRate" THEN MaxPulseRate ELSE MaxPulseWidth
      afterLow == IF value < lo THEN lo ELSE value
  IN  IF value > hi THEN hi ELSE afterLow

\* Math.floor((30 * 1000000000) / (x * 100)), reduced by the common factor 100
MaxAtThirtyPercent(x) == ThirtyPercentProduct \div x

\* (mutation: the pulse width is set to the 30 % width on every call)
PulseRateChangeAlwaysAdjust(newPulseRate, curWidth) ==
  LET correctedPulseRate == validateAndCorrectParameter(newPulseRate, "pulseRate")
  IN  <<correctedPulseRate,
        Max(MinPulseWidth, Min(MaxAtThirtyPercent(correctedPulseRate), MaxPulseWidth))>>

\* (mutation: the edited pulse rate itself is lowered to the 30 % rate)
PulseRateChangeReduceRate(newPulseRate, curWidth) ==
  <<Min(validateAndCorrectParameter(newPulseRate, "pulseRate"),
        MaxAtThirtyPercent(curWidth)),
    curWidth>>

\* (mutation: the pulse width is never adjusted)
PulseRateChangeKeepWidth(newPulseRate, curWidth) ==
  <<validateAndCorrectParameter(newPulseRate, "pulseRate"), curWidth>>

\* The pair <<finalPulseRate, finalPulseWidth>> handlePulseRateChange stores.
PulseRateChangeResult(newPulseRate, curWidth) ==
  LET correctedPulseRate == validateAndCorrectParameter(newPulseRate, "pulseRate")
      newDutyCycle == calculateDutyCycle(correctedPulseRate, curWidth)
      maxPulseWidth == MaxAtThirtyPercent(correctedPulseRate)
  IN  IF DutyExceedsLimit(newDutyCycle)
      THEN IF DutyExceedsLimit(calculateDutyCycle(correctedPulseRate, MinPulseWidth))
           THEN <<MaxAtThirtyPercent(MinPulseWidth), MinPulseWidth>>
           ELSE <<correctedPulseRate,
                  Max(MinPulseWidth, Min(maxPulseWidth, MaxPulseWidth))>>
      ELSE <<correctedPulseRate, curWidth>>

\* (mutation: the edited pulse width itself is lowered to the 30 % width)
PulseWidthChangeReduceWidth(curRate, newPulseWidth) ==
  <<curRate,
    Min(validateAndCorrectParameter(newPulseWidth, "pulseWidth"),
        MaxAtThirtyPercent(curRate))>>

\* (mutation: the pulse rate is never adjusted)
PulseWidthChangeKeepRate(curRate, newPulseWidth) ==
  <<curRate, validateAndCorrectParameter(newPulseWidth, "pulseWidth")>>

\* The pair <<finalPulseRate, finalPulseWidth>> handlePulseWidthChange stores.
PulseWidthChangeResult(curRate, newPulseWidth) ==
  LET correctedPulseWidth == validateAndCorrectParameter(newPulseWidth, "pulseWidth")
      newDutyCycle == calculateDutyCycle(curRate, correctedPulseWidth)
      maxPulseRate == MaxAtThirtyPercent(correctedPulseWidth)
  IN  IF DutyExceedsLimit(newDutyCycle)
      THEN IF DutyExceedsLimit(calculateDutyCycle(MinPulseRate, correctedPulseWidth))
           THEN <<MinPulseRate, MaxAtThirtyPercent(MinPulseRate)>>
           ELSE <<Max(MinPulseRate, Min(maxPulseRate, MaxPulseRate)),
                  correctedPulseWidth>>
      ELSE <<curRate, correctedPulseWidth>>

\* onChange of the Pulse Rate field: the raw value is stored
ChangePulseRate(v) ==
  /\ laserFocus \in {"none", "pulseRate"}
  /\ laserParams' = [laserParams EXCEPT !.pulseRate = v]
  /\ laserFocus' = "pulseRate"
  /\ UNCHANGED <<scanVars, tuneVars, clampVars, workflowVars>>

\* onBlur of the Pulse Rate field: handlePulseRateChange(parseInt(value) || 0)
handlePulseRateChange ==
  /\ laserFocus = "pulseRate"
  /\ LET final == PulseRateChangeResult(laserParams.pulseRate, laserParams.pulseWidth)
     IN  laserParams' = [pulseRate |-> final[1], pulseWidth |-> final[2]]
  /\ laserFocus' = "none"
  /\ UNCHANGED <<scanVars, tuneVars, clampVars, workflowVars>>

\* onChange of the Pulse Width field
ChangePulseWidth(v) ==
  /\ laserFocus \in {"none", "pulseWidth"}
  /\ laserParams' = [laserParams EXCEPT !.pulseWidth = v]
  /\ laserFocus' = "pulseWidth"
  /\ UNCHANGED <<scanVars, tuneVars, clampVars, workflowVars>>

\* onBlur of the Pulse Width field: handlePulseWidthChange(parseInt(value) || 0)
handlePulseWidthChange ==
  /\ laserFocus = "pulseWidth"
  /\ LET final == PulseWidthChangeResult(laserParams.pulseRate, laserParams.pulseWidth)
     IN  laserParams' = [pulseRate |-> final[1], pulseWidth |-> final[2]]
  /\ laserFocus' = "none"
  /\ UNCHANGED <<scanVars, tuneVars, clampVars, workflowVars>>

(***************************************************************************)
(* ScanModePanel: numbers, unit conversion and range validation            *)
(***************************************************************************)
\* fixed-point unit of wavenumbers (cm-1) and wavelengths (um): 1 / Scale
Scale == 10000
\* 10000 * Scale * Scale, the numerator of 10000 / v, as 10^9 * 10^3
ConvNumeratorHead == 1000000000
\* QCL range in cm-1: 1638.81 and 2077.27
WnMin == 16388100
WnMax == 20772700
\* 1850.0 and 1900.0
DefaultStart == 18500000
DefaultEnd == 19000000
\* scanSettings.stepSize 1.0 and scanSettings.scanSpeed 10
DefaultStepSize == 10000
DefaultScanSpeed == 100000
\* parseFloat / parseInt result NaN; the absent (null) percent or scan number
NaN == -1
NoValue == -1

\* one decimal digit of the long division of a * 10 by n, a = <<quotient, rest>>
DivDigit(a, n) ==
  LET t == a[2] * 10 IN <<a[1] * 10 + (t \div n), t % n>>

\* 10000 / v for v > 0, rounded to the nearest multiple of 1 / Scale
TenThousandOver(v) ==
  LET a0 == <<ConvNumeratorHead \div v, ConvNumeratorHead % v>>
      a3 == DivDigit(DivDigit(DivDigit(a0, v), v), v)
  IN  IF 2 * a3[2] >= v THEN a3[1] + 1 ELSE a3[1]

convertToMicrons(wavenum) == TenThousandOver(wavenum)
\* (mutation: no conversion)
convertToWavenumberIdentity(microns) == microns
convertToWavenumber(microns) == TenThousandOver(microns)

\* Number(x.toFixed(2))
ToFixed2(x) == ((x + (Scale \div 200)) \div (Scale \div 100)) * (Scale \div 100)

\* the range of the wavenumber fields in unit u
RangeMin(u) == IF u = "cm-1" THEN WnMin ELSE convertToMicrons(WnMax)
RangeMax(u) == IF u = "cm-1" THEN WnMax ELSE convertToMicrons(WnMin)

\* the two comparisons of validateAndCorrectValue and updateMultiSpectralEntry
ClampToRange(value, u) ==
  LET afterMin == IF value < RangeMin(u) THEN RangeMin(u) ELSE value
  IN  IF value > RangeMax(u) THEN RangeMax(u) ELSE afterMin

\* validateAndCorrectValue(value, 'wavenumber') with the current units
validateAndCorrectValue(value) ==
  LET correctedValue == ClampToRange(value, units)
  IN  IF units = "um" THEN ToFixed2(correctedValue) ELSE correctedValue

\* the value updateMultiSpectralEntry(id, 'wavenumber', value) stores
UpdatedEntryWavenumber(value) ==
  LET correctedValue == ClampToRange(value, units)
  IN  IF units = "um" THEN ToFixed2(correctedValue) ELSE correctedValue

\* the converted value of handleUnitChange
ConvertFor(newUnit, v) ==
  IF newUnit = "um" THEN convertToMicrons(v) ELSE convertToWavenumber(v)

(***************************************************************************)
(* ScanModePanel: device status and the loop-count effect                  *)
(***************************************************************************)
\* bounds of the telemetry the model feeds in
MaxScanNumber == 4
MaxLoopCount == 3
MaxEntries == 3
MaxEntryId == 3
MaxInFlight == 2

ScanModes == {"sweep", "step", "multispectral"}
\* the percent thresholds of the wrap-around heuristic
WrapHigh == 80
WrapLow == 30
WrapDrop == 50

\* deviceStatus === null reads as this record through ?. and ||
NullStatus ==
  [connected |-> FALSE, armed |-> FALSE, scan_in_progress |-> FALSE,
   current_scan_mode |-> NULL, current_scan_percent |-> NoValue,
   current_scan_number |-> NoValue, emission_on |-> FALSE,
   current_wavenumber |-> NoValue]

canInteract == deviceStatus.connected /\ deviceStatus.armed
scanInProgress == deviceStatus.scan_in_progress

\* (prevP > 80 && curPercent < 30) || drop > 50
PercentWrappedInclusive(prevP, curPercent) ==
  \/ prevP > WrapHigh /\ curPercent < WrapLow
  \/ prevP - curPercent >= WrapDrop

PercentWrapped(prevP, curPercent) ==
  \/ prevP > WrapHigh /\ curPercent < WrapLow
  \/ prevP - curPercent > WrapDrop

\* Math.max(1, msElementsRef.current || multiSpectralEntries.length || 1)
ElementsPerLoop(elemsRef, len) ==
  Max(1, IF elemsRef # 0 THEN elemsRef ELSE IF len # 0 THEN len ELSE 1)

\* Math.floor((curScanNum - base) / elems) + 1
LoopsByIndexNoOffset(curScanNum, base, elems) == (curScanNum - base) \div elems

LoopsByIndex(curScanNum, base, elems) == ((curScanNum - base) \div elems) + 1

\* if (loopsByIdx > loopCount) setLoopCount(loopsByIdx): the value that ends
\* the update queue, queued being the value the earlier updates produced
ApplyLoopsByIndexAlways(loopsByIdx, renderedLoopCount, queued) == loopsByIdx

ApplyLoopsByIndex(loopsByIdx, renderedLoopCount, queued) ==
  IF loopsByIdx > renderedLoopCount THEN loopsByIdx ELSE queued

\* (mutation: no reset when the scan is no longer in progress)
ShouldResetOnModeChangeOnly(curInProgress, activeMode) ==
  prevModeRef # NULL /\ activeMode # NULL /\ prevModeRef # activeMode

\* !curInProgress || (prevModeRef.current && activeMode &&
\*                    prevModeRef.current !== activeMode)
\* (mutation: no reset on a mode change)
ShouldResetOnStopOnly(curInProgress, activeMode) == ~curInProgress

ShouldReset(curInProgress, activeMode) ==
  \/ ~curInProgress
  \/ prevModeRef # NULL /\ activeMode # NULL /\ prevModeRef # activeMode

\* The loop-count useEffect, run with status cur and len list entries: the
\* values of the state and the refs when it returns.
LoopEffect(cur, len) ==
  LET curInProgress == cur.scan_in_progress
      curPercent == cur.current_scan_percent
      curScanNum == cur.current_scan_number
      activeMode == cur.current_scan_mode
      reset == ShouldReset(curInProgress, activeMode)
      count0 == IF reset THEN 0 ELSE loopCount
      percent0 == IF reset THEN NoValue ELSE prevPercentRef
      base0 == IF reset THEN NoValue ELSE msBaselineScanNumRef
      onStart == curInProgress /\ ~prevInProgressRef
      later == curInProgress /\ prevInProgressRef
      wrapped == /\ later
                 /\ percent0 # NoValue
                 /\ curPercent # NoValue
                 /\ PercentWrapped(percent0, curPercent)
      count1 == IF onStart THEN 1 ELSE IF wrapped THEN count0 + 1 ELSE count0
      byIndex == later /\ activeMode = "multispectral" /\ curScanNum # NoValue
      base == IF base0 # NoValue THEN base0 ELSE curScanNum
      elems == ElementsPerLoop(msElementsRef, len)
      count2 == IF byIndex /\ curScanNum >= base
                THEN ApplyLoopsByIndex(LoopsByIndex(curScanNum, base, elems),
                                       loopCount, count1)
                ELSE count1
  IN  [loopCount |-> count2,
       prevPercentRef |-> IF curPercent # NoValue THEN curPercent ELSE percent0,
       prevInProgressRef |-> curInProgress,
       msBaselineScanNumRef |->
         IF onStart /\ activeMode = "multispectral"
         THEN (IF curScanNum # NoValue THEN curScanNum ELSE 0)
         ELSE IF byIndex THEN base ELSE base0,
       msElementsRef |->
         IF onStart /\ activeMode = "multispectral"
         THEN (IF len # 0 THEN len ELSE 1)
         ELSE msElementsRef,
       prevModeRef |-> activeMode]

\* the dependency list of the effect
EffectDeps(st, len) ==
  <<st.scan_in_progress, st.current_scan_percent, st.current_scan_number,
    st.current_scan_mode, len>>

\* A render with status st and len list entries: the effect runs when one of
\* its dependencies changed.
Render(st, len) ==
  IF EffectDeps(st, len) # EffectDeps(deviceStatus, Len(multiSpectralEntries))
  THEN LET e == LoopEffect(st, len)
       IN  /\ e.loopCount <= MaxLoopCount
           /\ loopCount' = e.loopCount
           /\ prevPercentRef' = e.prevPercentRef
           /\ prevInProgressRef' = e.prevInProgressRef
           /\ msBaselineScanNumRef' = e.msBaselineScanNumRef
           /\ msElementsRef' = e.msElementsRef
           /\ prevModeRef' = e.prevModeRef
  ELSE UNCHANGED loopVars

(***************************************************************************)
(* ScanModePanel: status updates                                           *)
(***************************************************************************)
\* The status records the backend may report, over the given value sets.
StatusSamples(armedSet, progressSet, modes, percents, scanNumbers) ==
  [connected : {TRUE}, armed : armedSet, scan_in_progress : progressSet,
   current_scan_mode : modes, current_scan_percent : percents,
   current_scan_number : scanNumbers, emission_on : {FALSE},
   current_wavenumber : {NoValue}]

\* telemetry of sweep and step scans: the percent matters
SweepSamples ==
  StatusSamples({TRUE}, BOOLEAN, {NULL, "sweep", "step"},
                {NoValue, 10, 15, 50, 60, 90}, {NoValue})

\* telemetry of multispectral scans: the scan number matters; the effect
\* reads no scan number of a status that reports no scan in progress
MultispectralSamples ==
  StatusSamples({TRUE}, {TRUE}, {"sweep", "multispectral"}, {10, 90},
                {NoValue} \cup 0..MaxScanNumber)
  \cup StatusSamples({TRUE}, {FALSE}, {NULL}, {NoValue, 90}, {NoValue})

\* the few status records of the specifications about the handlers
PanelSamples ==
  StatusSamples(BOOLEAN, BOOLEAN, {"sweep", "multispectral"}, {10}, {0})
SettingsSamples ==
  StatusSamples({TRUE}, {FALSE}, {NULL}, {NoValue}, {NoValue})

\* setDeviceStatus(status) by the poll or the WebSocket, and the render
Telemetry(st) ==
  /\ deviceStatus' = st
  /\ Render(st, Len(multiSpectralEntries))
  /\ UNCHANGED <<outsideVars, countVars, selectedScanMode, settingsVars,
                 entryVars, requestVars>>

(***************************************************************************)
(* ScanModePanel: settings and the multispectral entry list                *)
(***************************************************************************)
Units == {"cm-1", "um"}

\* values typed into the wavenumber fields: parseFloat(text), NaN included
WavenumberInputs == {NaN, 40000, 48145, 20790000}
\* the texts typed into the End field, into a row and into the Target field
EndInputs == {NaN, 48145}
EntryInputs == {40000}
TargetInputs == {NaN, 40000, 48145, 61100, 18500000, 20790000}
\* parseInt of the dwell and off time drafts
TimeInputs == {NaN, 0, 100}

handleScanModeSelect(mode) ==
  /\ canInteract
  /\ scanFocus = "none"
  /\ selectedScanMode' = mode
  /\ UNCHANGED <<outsideVars, countVars, deviceStatus, settingsVars, entryVars,
                 requestVars, loopVars>>

\* onChange of the Start / End field: parseFloat(value) || 0 is stored
ChangeScanField(field, v) ==
  /\ canInteract
  /\ selectedScanMode \in {"sweep", "step"}
  /\ scanFocus \in {"none", field}
  /\ scanSettings' = [scanSettings EXCEPT ![field] = IF v = NaN THEN 0 ELSE v]
  /\ scanFocus' = field
  /\ UNCHANGED <<outsideVars, countVars, deviceStatus, selectedScanMode, units,
                 entryVars, requestVars, loopVars>>

\* onBlur of the Start / End field
BlurScanField(field) ==
  /\ scanFocus = field
  /\ scanSettings' =
       [scanSettings EXCEPT ![field] = validateAndCorrectValue(scanSettings[field])]
  /\ scanFocus' = "none"
  /\ UNCHANGED <<outsideVars, countVars, deviceStatus, selectedScanMode, units,
                 entryVars, requestVars, loopVars>>

ConvertEntries(newUnit, entries) ==
  [i \in 1..Len(entries) |->
     [entries[i] EXCEPT !.wavenumber = ConvertFor(newUnit, @)]]

\* (mutation: the conversion is applied even when the unit stays the same)
UnitChangeAlways(newUnit) ==
  /\ scanSettings' =
       [scanSettings EXCEPT
          !.startWavenumber = ConvertFor(newUnit, @),
          !.endWavenumber = ConvertFor(newUnit, @)]
  /\ multiSpectralEntries' = ConvertEntries(newUnit, multiSpectralEntries)
  /\ units' = newUnit

\* the settings and entries handleUnitChange(newUnit) stores
UnitChange(newUnit) ==
  IF newUnit # units
  THEN /\ scanSettings' =
            [scanSettings EXCEPT
               !.startWavenumber = ConvertFor(newUnit, @),
               !.endWavenumber = ConvertFor(newUnit, @)]
       /\ multiSpectralEntries' = ConvertEntries(newUnit, multiSpectralEntries)
       /\ units' = newUnit
  ELSE UNCHANGED <<scanSettings, multiSpectralEntries, units>>

handleUnitChange(newUnit) ==
  /\ canInteract
  /\ selectedScanMode # ""
  /\ scanFocus = "none"
  /\ UnitChange(newUnit)
  /\ UNCHANGED <<outsideVars, countVars, deviceStatus, selectedScanMode,
                 scanFocus, nextId, requestVars, loopVars>>

\* (mutation: the id is the position in the list, not nextId)
AddedEntriesIdByPosition(wnVal, dwellVal, offVal) ==
  IF \/ wnVal = NaN
     \/ dwellVal = NaN \/ dwellVal <= 0
     \/ offVal = NaN \/ offVal <= 0
  THEN multiSpectralEntries
  ELSE Append(multiSpectralEntries,
              [id |-> Len(multiSpectralEntries) + 1,
               wavenumber |-> validateAndCorrectValue(wnVal),
               dwellTime |-> dwellVal, offTime |-> offVal])

\* the list addMultiSpectralEntry() stores for the parsed drafts
AddedEntries(wnVal, dwellVal, offVal) ==
  IF \/ wnVal = NaN
     \/ dwellVal = NaN \/ dwellVal <= 0
     \/ offVal = NaN \/ offVal <= 0
  THEN multiSpectralEntries
  ELSE Append(multiSpectralEntries,
              [id |-> nextId, wavenumber |-> validateAndCorrectValue(wnVal),
               dwellTime |-> dwellVal, offTime |-> offVal])

\* click on Add Entry with the three drafts filled in
addMultiSpectralEntry(wnVal, dwellVal, offVal) ==
  /\ canInteract
  /\ selectedScanMode = "multispectral"
  /\ scanFocus = "none"
  /\ Len(multiSpectralEntries) < MaxEntries
  /\ nextId <= MaxEntryId
  /\ multiSpectralEntries' = AddedEntries(wnVal, dwellVal, offVal)
  /\ nextId' = IF multiSpectralEntries' # multiSpectralEntries
               THEN nextId + 1 ELSE nextId
  /\ Render(deviceStatus, Len(multiSpectralEntries'))
  /\ UNCHANGED <<outsideVars, countVars, deviceStatus, selectedScanMode,
                 settingsVars, requestVars>>

\* prev.filter(entry => entry.id !== id)
WithoutEntry(entries, id) == SelectSeq(entries, LAMBDA e : e.id # id)

removeMultiSpectralEntry(id) ==
  /\ multiSpectralEntries' = WithoutEntry(multiSpectralEntries, id)
  /\ Render(deviceStatus, Len(multiSpectralEntries'))
  /\ UNCHANGED <<outsideVars, countVars, deviceStatus, selectedScanMode,
                 settingsVars, nextId, requestVars>>

\* (mutation: the button is enabled for the last remaining row too)
ClickDeleteLastRowToo(id) ==
  /\ canInteract
  /\ selectedScanMode = "multispectral"
  /\ scanFocus = "none"
  /\ \E i \in 1..Len(multiSpectralEntries) : multiSpectralEntries[i].id = id
  /\ removeMultiSpectralEntry(id)

\* the Delete button of a row: disabled for the last remaining row
ClickDelete(id) ==
  /\ canInteract
  /\ selectedScanMode = "multispectral"
  /\ scanFocus = "none"
  /\ Len(multiSpectralEntries) > 1
  /\ \E i \in 1..Len(multiSpectralEntries) : multiSpectralEntries[i].id = id
  /\ removeMultiSpectralEntry(id)

\* onBlur of a row's wavenumber field with parsed text v
BlurEntryWavenumber(id, v) ==
  /\ canInteract
  /\ selectedScanMode = "multispectral"
  /\ scanFocus = "none"
  /\ \E i \in 1..Len(multiSpectralEntries) : multiSpectralEntries[i].id = id
  /\ LET correctedValue ==
           IF v # NaN THEN validateAndCorrectValue(v)
           ELSE IF units = "cm-1" THEN DefaultStart
           ELSE convertToMicrons(DefaultStart)
     IN  multiSpectralEntries' =
           [i \in 1..Len(multiSpectralEntries) |->
              IF multiSpectralEntries[i].id = id
              THEN [multiSpectralEntries[i] EXCEPT
                      !.wavenumber = UpdatedEntryWavenumber(correctedValue)]
              ELSE multiSpectralEntries[i]]
  /\ UNCHANGED <<outsideVars, countVars, deviceStatus, selectedScanMode,
                 settingsVars, nextId, requestVars, loopVars>>

(***************************************************************************)
(* ScanModePanel: start and stop                                           *)
(***************************************************************************)
(* ScanModePanel: the Number of Scans fields and the Infinite checkboxes   *)
(***************************************************************************)
\* parseInt of the text typed into a Number of Scans field: the min and max
\* of inputProps do not keep a typed 0 or a negative number out
CountInputs == {NaN, -3, 0, 2}

\* onChange of Number of Scans on the sweep card: parseInt(value) is stored
ChangeNumberOfScans(v) ==
  /\ canInteract
  /\ selectedScanMode = "sweep"
  /\ scanFocus = "none"
  /\ ~scanSettings.infiniteScans
  /\ scanSettings' = [scanSettings EXCEPT !.numberOfScans = v]
  /\ UNCHANGED <<outsideVars, countVars, deviceStatus,
                 selectedScanMode, units, scanFocus, entryVars, requestVars,
                 loopVars>>

\* onChange of the Infinite checkbox on the sweep card
ChangeInfiniteScans(checked) ==
  /\ canInteract
  /\ selectedScanMode = "sweep"
  /\ scanFocus = "none"
  /\ scanSettings' = [scanSettings EXCEPT !.infiniteScans = checked]
  /\ UNCHANGED <<outsideVars, countVars, deviceStatus,
                 selectedScanMode, units, scanFocus, entryVars, requestVars,
                 loopVars>>

\* onChange of Number of Scans on the multispectral card
setNumberOfScans(v) ==
  /\ canInteract
  /\ selectedScanMode = "multispectral"
  /\ scanFocus = "none"
  /\ ~infiniteScans
  /\ numberOfScans' = v
  /\ UNCHANGED <<outsideVars, deviceStatus, selectedScanMode,
                 settingsVars, entryVars, infiniteScans, requestVars, loopVars>>

\* onChange of the Infinite checkbox on the multispectral card
setInfiniteScans(checked) ==
  /\ canInteract
  /\ selectedScanMode = "multispectral"
  /\ scanFocus = "none"
  /\ infiniteScans' = checked
  /\ UNCHANGED <<outsideVars, deviceStatus, selectedScanMode,
                 settingsVars, entryVars, numberOfScans, requestVars, loopVars>>

(***************************************************************************)
ErrTwoEntries == "Add at least two entries before starting a multispectral scan"
ErrDevice == "device error"

\* the wavelength_list of the multispectral start request
WavelengthList ==
  [i \in 1..Len(multiSpectralEntries) |->
     [wavenumber |-> IF units = "um"
                     THEN convertToWavenumber(multiSpectralEntries[i].wavenumber)
                     ELSE multiSpectralEntries[i].wavenumber,
      dwell_time |-> multiSpectralEntries[i].dwellTime,
      off_time |-> multiSpectralEntries[i].offTime]]

\* infiniteScans ? 0 : (Number.isFinite(numberOfScans) && numberOfScans > 0
\*                      ? numberOfScans : 1)
MultispectralScans ==
  IF infiniteScans THEN 0
  ELSE IF numberOfScans # NaN /\ numberOfScans > 0 THEN numberOfScans
  ELSE 1

\* the request handleStartScan sends for the selected mode
StartRequest ==
  CASE selectedScanMode = "sweep" ->
         [kind |-> "startSweepScan", answer |-> "none",
          number_of_scans |-> IF scanSettings.infiniteScans THEN 0
                              ELSE scanSettings.numberOfScans,
          start_wavenumber |-> scanSettings.startWavenumber,
          end_wavenumber |-> scanSettings.endWavenumber,
          wavelength_list |-> << >>]
    [] selectedScanMode = "step" ->
         [kind |-> "startStepScan", answer |-> "none",
          number_of_scans |-> scanSettings.numberOfScans,
          start_wavenumber |-> scanSettings.startWavenumber,
          end_wavenumber |-> scanSettings.endWavenumber,
          wavelength_list |-> << >>]
    [] selectedScanMode = "multispectral" ->
         [kind |-> "startMultispectralScan", answer |-> "none",
          number_of_scans |-> MultispectralScans,
          start_wavenumber |-> NoValue, end_wavenumber |-> NoValue,
          wavelength_list |-> WavelengthList]
    [] OTHER ->
         \* no mode selected: no command, only await onStatusUpdate()
         [kind |-> "statusOnly", answer |-> "ok", number_of_scans |-> NoValue,
          start_wavenumber |-> NoValue, end_wavenumber |-> NoValue,
          wavelength_list |-> << >>]

StopRequest ==
  [kind |-> "stopScan", answer |-> "none", number_of_scans |-> NoValue,
   start_wavenumber |-> NoValue,
   end_wavenumber |-> NoValue, wavelength_list |-> << >>]

ManualStepRequest ==
  [kind |-> "manualStep", answer |-> "none", number_of_scans |-> NoValue,
   start_wavenumber |-> NoValue,
   end_wavenumber |-> NoValue, wavelength_list |-> << >>]

\* if (multiSpectralEntries.length < 2) throw new Error(...)
TooFewEntriesNever == FALSE

TooFewEntries ==
  selectedScanMode = "multispectral" /\ Len(multiSpectralEntries) < 2

\* handleStartScan up to its first await
handleStartScan ==
  /\ Len(pending) < MaxInFlight
  /\ IF TooFewEntries
     THEN /\ error' = ErrTwoEntries
          /\ loading' = FALSE
          /\ pending' = pending
     ELSE /\ error' = NULL
          /\ loading' = TRUE
          /\ pending' = Append(pending, StartRequest)
  /\ UNCHANGED <<outsideVars, countVars, deviceStatus, selectedScanMode,
                 settingsVars, entryVars, loopVars>>

\* handleStopScan up to its first await
handleStopScan ==
  /\ Len(pending) < MaxInFlight
  /\ error' = NULL
  /\ loading' = TRUE
  /\ pending' = Append(pending, StopRequest)
  /\ UNCHANGED <<outsideVars, countVars, deviceStatus, selectedScanMode,
                 settingsVars, entryVars, loopVars>>

\* handleManualStep up to its first await; the error is not cleared
handleManualStep ==
  /\ Len(pending) < MaxInFlight
  /\ loading' = TRUE
  /\ pending' = Append(pending, ManualStepRequest)
  /\ UNCHANGED <<outsideVars, countVars, deviceStatus, selectedScanMode,
                 settingsVars, entryVars, error, loopVars>>

\* (mutation: the Start Scan button does not look at loading)
StartDisabledIgnoringLoading ==
  \/ ~canInteract
  \/ scanInProgress
  \/ Len(multiSpectralEntries) <
       (IF selectedScanMode = "multispectral" THEN 2 ELSE 0)

\* disabled= of the Start Scan and Stop Scan buttons
StartDisabled ==
  \/ ~canInteract
  \/ loading
  \/ scanInProgress
  \/ Len(multiSpectralEntries) <
       (IF selectedScanMode = "multispectral" THEN 2 ELSE 0)
StopDisabled == ~canInteract \/ loading \/ ~scanInProgress

\* useState(false); setManualStepEnabled is never called
manualStepEnabled == FALSE
\* the Manual Step button is rendered, and its disabled=
ManualStepShown == selectedScanMode = "step" /\ manualStepEnabled
ManualStepDisabled == ~canInteract \/ loading

ClickStart ==
  /\ selectedScanMode # ""
  /\ scanFocus = "none"
  /\ ~StartDisabled
  /\ handleStartScan

ClickStop ==
  /\ selectedScanMode # ""
  /\ scanFocus = "none"
  /\ ~StopDisabled
  /\ handleStopScan

RemoveAt(q, i) == SubSeq(q, 1, i - 1) \o SubSeq(q, i + 1, Len(q))

\* The device answers the request at position i: the promise of the
\* MIRcatAPI call resolves (ok) or rejects (error).
DeviceAnswers(i, a) ==
  /\ i \in 1..Len(pending)
  /\ pending[i].answer = "none"
  /\ pending' = [pending EXCEPT ![i].answer = a]
  /\ UNCHANGED <<outsideVars, countVars, deviceStatus, selectedScanMode,
                 settingsVars, entryVars, loading, error, loopVars>>

\* The handler resumes after a resolved call: it awaits onStatusUpdate(),
\* which stores the status st it fetched (the status is kept when the fetch
\* fails), and ends in finally { setLoading(false) }.
ResumeAfterSuccess(i, st) ==
  /\ i \in 1..Len(pending)
  /\ pending[i].answer = "ok"
  /\ pending' = RemoveAt(pending, i)
  /\ loading' = FALSE
  /\ error' = error
  /\ deviceStatus' = st
  /\ Render(st, Len(multiSpectralEntries))
  /\ UNCHANGED <<outsideVars, countVars, selectedScanMode, settingsVars,
                 entryVars>>

\* (mutation: the status is refreshed on the error path too)
ResumeAfterFailureRefreshing(i) ==
  /\ i \in 1..Len(pending)
  /\ pending[i].answer = "error"
  /\ pending' = RemoveAt(pending, i)
  /\ loading' = FALSE
  /\ error' = ErrDevice
  /\ \E st \in PanelSamples :
       /\ deviceStatus' = st
       /\ Render(st, Len(multiSpectralEntries))
  /\ UNCHANGED <<outsideVars, countVars, selectedScanMode, settingsVars,
                 entryVars>>

\* The handler resumes after a rejected call: catch { setError(...) } and
\* finally { setLoading(false) }; onStatusUpdate() is not reached.
ResumeAfterFailure(i) ==
  /\ i \in 1..Len(pending)
  /\ pending[i].answer = "error"
  /\ pending' = RemoveAt(pending, i)
  /\ loading' = FALSE
  /\ error' = ErrDevice
  /\ UNCHANGED <<outsideVars, countVars, deviceStatus, selectedScanMode,
                 settingsVars, entryVars, loopVars>>

\* onClose of the error alert
DismissError ==
  /\ error # NULL
  /\ error' = NULL
  /\ UNCHANGED <<outsideVars, countVars, deviceStatus, selectedScanMode,
                 settingsVars, entryVars, loading, pending, loopVars>>

(***************************************************************************)
(* TuningControls: the Target field                                        *)
(***************************************************************************)
\* onChange of the Target field: parseFloat(value) || 0 is stored
ChangeTuneWavenumber(v) ==
  /\ deviceStatus.connected
  /\ tuneWavenumber' = IF v = NaN THEN 0 ELSE v
  /\ tuneFocus' = TRUE
  /\ UNCHANGED <<clampVars, laserVars, workflowVars, scanVars, tuneUnits>>

\* the value the Target field holds after handleWavenumberBlur()
WavenumberAfterBlur(wavenumber, u) ==
  LET correctedValue ==
        IF wavenumber < RangeMin(u) THEN RangeMin(u)
        ELSE IF wavenumber > RangeMax(u) THEN RangeMax(u)
        ELSE wavenumber
  IN  IF correctedValue # wavenumber THEN ToFixed2(correctedValue)
      ELSE wavenumber

handleWavenumberBlur ==
  /\ tuneFocus
  /\ tuneWavenumber' = WavenumberAfterBlur(tuneWavenumber, tuneUnits)
  /\ tuneFocus' = FALSE
  /\ UNCHANGED <<clampVars, laserVars, workflowVars, scanVars, tuneUnits>>

\* handleUnitChange of TuningControls
handleTuneUnitChange(newUnit) ==
  /\ deviceStatus.connected
  /\ ~tuneFocus
  /\ IF newUnit # tuneUnits
     THEN /\ tuneWavenumber' = ConvertFor(newUnit, tuneWavenumber)
          /\ tuneUnits' = newUnit
     ELSE UNCHANGED <<tuneWavenumber, tuneUnits>>
  /\ UNCHANGED <<clampVars, laserVars, workflowVars, scanVars, tuneFocus>>

(***************************************************************************)
(* TuningControls and DaylightMIRcatView: tune, emission and disarm        *)
(***************************************************************************)
Components == {"DaylightMIRcatView", "TuningControls"}

\* a status record with the fields these handlers read
WorkflowStatus(connected, armed, emission_on, current_wavenumber) ==
  [NullStatus EXCEPT !.connected = connected, !.armed = armed,
                     !.emission_on = emission_on,
                     !.current_wavenumber = current_wavenumber]

\* the status records fed to the tune and emission handlers
WorkflowSamples ==
  {WorkflowStatus(FALSE, FALSE, FALSE, NoValue),
   WorkflowStatus(TRUE, FALSE, FALSE, NoValue)}
  \cup {WorkflowStatus(TRUE, TRUE, e, w) :
          e \in BOOLEAN, w \in {NoValue, 0, DefaultStart}}

\* the status records fed to handleDisarm
DisarmSamples ==
  {WorkflowStatus(TRUE, FALSE, FALSE, NoValue)}
  \cup {WorkflowStatus(TRUE, TRUE, e, DefaultStart) : e \in BOOLEAN}

\* (mutation: only the connection is validated)
validateWorkflowConnectionOnly(action) ==
  IF ~deviceStatus.connected
  THEN IF action = "TUNE" THEN "Please connect to the device before tune."
       ELSE "Please connect to the device before emit."
  ELSE NULL

\* validateWorkflow(action): the message, or null
validateWorkflow(action) ==
  IF ~deviceStatus.connected
  THEN IF action = "TUNE" THEN "Please connect to the device before tune."
       ELSE "Please connect to the device before emit."
  ELSE IF action = "TUNE"
  THEN IF ~deviceStatus.armed THEN "Please arm the laser before tuning."
       ELSE NULL
  ELSE IF action = "EMIT"
  THEN IF ~deviceStatus.armed THEN "Please arm the laser before emission."
       ELSE IF deviceStatus.current_wavenumber \in {NoValue, 0}
       THEN "Please tune the laser before enabling emission."
       ELSE NULL
  ELSE NULL

\* a device call of handler in component, awaiting its response
Command(component, handler, kind, wavenumber) ==
  [component |-> component, handler |-> handler, kind |-> kind,
   answer |-> "none", wavenumber |-> wavenumber]

\* setLoading(true); setError(null) of the component
StartsLoading(component) ==
  IF component = "TuningControls"
  THEN /\ loadingTune' = TRUE
       /\ errorTune' = NULL
       /\ UNCHANGED <<loadingView, errorView>>
  ELSE /\ loadingView' = TRUE
       /\ errorView' = NULL
       /\ UNCHANGED <<loadingTune, errorTune>>

\* handleTune up to its first await
handleTune ==
  /\ LET validation == validateWorkflow("TUNE")
     IN  IF validation # NULL
         THEN /\ snackbarMessage' = validation
              /\ UNCHANGED <<loadingTune, errorTune, loadingView, errorView,
                             commands>>
         ELSE /\ Len(commands) < MaxInFlight
              /\ StartsLoading("TuningControls")
              /\ commands' =
                   Append(commands,
                          Command("TuningControls", "handleTune",
                                  "tuneToWavenumber",
                                  IF tuneUnits = "um"
                                  THEN convertToWavenumber(tuneWavenumber)
                                  ELSE tuneWavenumber))
              /\ UNCHANGED snackbarMessage
  /\ UNCHANGED <<clampVars, laserVars, scanVars, tuneVars>>

\* handleEmit up to its first await
handleEmit ==
  /\ LET validation == validateWorkflow("EMIT")
     IN  IF validation # NULL
         THEN /\ snackbarMessage' = validation
              /\ UNCHANGED <<loadingTune, errorTune, loadingView, errorView,
                             commands>>
         ELSE /\ Len(commands) < MaxInFlight
              /\ StartsLoading("TuningControls")
              /\ commands' =
                   Append(commands,
                          Command("TuningControls", "handleEmit",
                                  IF deviceStatus.emission_on
                                  THEN "turnEmissionOff"
                                  ELSE "turnEmissionOn",
                                  NoValue))
              /\ UNCHANGED snackbarMessage
  /\ UNCHANGED <<clampVars, laserVars, scanVars, tuneVars>>

\* (mutation: disarm is sent whatever emission_on is)
FirstDisarmCommandDirect(emission_on) == "disarmLaser"

\* if (deviceStatus?.emission_on) await MIRcatAPI.turnEmissionOff()
FirstDisarmCommand(emission_on) ==
  IF emission_on THEN "turnEmissionOff" ELSE "disarmLaser"

\* handleDisarm of the component up to its first await
handleDisarm(component) ==
  /\ Len(commands) < MaxInFlight
  /\ StartsLoading(component)
  /\ commands' =
       Append(commands,
              Command(component, "handleDisarm",
                      FirstDisarmCommand(deviceStatus.emission_on), NoValue))
  /\ UNCHANGED <<clampVars, laserVars, scanVars, tuneVars, snackbarMessage>>

\* The device answers the call at position i.
CommandAnswers(i, a) ==
  /\ i \in 1..Len(commands)
  /\ commands[i].answer = "none"
  /\ commands' = [commands EXCEPT ![i].answer = a]
  /\ UNCHANGED <<clampVars, laserVars, scanVars, tuneVars, loadingTune,
                 errorTune, snackbarMessage, loadingView, errorView>>

\* handleDisarm resumes after turnEmissionOff resolved: it sends disarmLaser
DisarmAfterEmissionOff(i) ==
  /\ i \in 1..Len(commands)
  /\ commands[i].handler = "handleDisarm"
  /\ commands[i].kind = "turnEmissionOff"
  /\ commands[i].answer = "ok"
  /\ commands' = [commands EXCEPT ![i].kind = "disarmLaser",
                                  ![i].answer = "none"]
  /\ snackbarMessage' =
       IF commands[i].component = "TuningControls"
       THEN "Emission stopped before disarming" ELSE snackbarMessage
  /\ UNCHANGED <<clampVars, laserVars, scanVars, tuneVars, loadingTune,
                 errorTune, loadingView, errorView>>

\* the last call of a handler: no further device call follows it
LastCall(c) == ~(c.handler = "handleDisarm" /\ c.kind = "turnEmissionOff")

\* handleDisarm of DaylightMIRcatView resumes after disarmLaser resolved:
\* await fetchStatus() stores the status st and clears the error, or fails
\* and sets the error; finally { setLoading(false) }
ViewDisarmed(i, st, fetched) ==
  /\ i \in 1..Len(commands)
  /\ commands[i].component = "DaylightMIRcatView"
  /\ LastCall(commands[i])
  /\ commands[i].answer = "ok"
  /\ commands' = RemoveAt(commands, i)
  /\ loadingView' = FALSE
  /\ IF fetched
     THEN /\ deviceStatus' = st
          /\ errorView' = NULL
     ELSE /\ deviceStatus' = deviceStatus
          /\ errorView' = "Failed to fetch device status"
  /\ Render(deviceStatus', Len(multiSpectralEntries))
  /\ UNCHANGED <<clampVars, laserVars, tuneVars, selectedScanMode,
                 settingsVars, entryVars, countVars, requestVars, loadingTune,
                 errorTune, snackbarMessage>>

\* the message a handler of TuningControls shows when its last call resolved
SuccessMessage(c) ==
  IF c.handler = "handleTune" THEN "Tuned to"
  ELSE IF c.handler = "handleDisarm" THEN "Laser disarmed successfully"
  ELSE IF c.kind = "turnEmissionOff" THEN "Emission turned off"
  ELSE "Emission turned on"

\* A handler of TuningControls resumes after its last call resolved:
\* onStatusUpdate() is started and not awaited (the status arrives as
\* telemetry), the message is shown; finally { setLoading(false) }
TuningCommandDone(i) ==
  /\ i \in 1..Len(commands)
  /\ commands[i].component = "TuningControls"
  /\ LastCall(commands[i])
  /\ commands[i].answer = "ok"
  /\ commands' = RemoveAt(commands, i)
  /\ snackbarMessage' = SuccessMessage(commands[i])
  /\ loadingTune' = FALSE
  /\ UNCHANGED <<clampVars, laserVars, scanVars, tuneVars, errorTune,
                 loadingView, errorView>>

\* the error a handler sets in its catch
FailureMessage(c) ==
  IF c.handler = "handleTune" THEN "Failed to tune laser"
  ELSE IF c.handler = "handleEmit" THEN "Failed to control emission"
  ELSE "Failed to disarm laser"

\* A handler resumes after a rejected call: catch { setError(...) } and
\* finally { setLoading(false) }; no further call is made.
CommandFailed(i) ==
  /\ i \in 1..Len(commands)
  /\ commands[i].answer = "error"
  /\ commands' = RemoveAt(commands, i)
  /\ IF commands[i].component = "TuningControls"
     THEN /\ errorTune' = FailureMessage(commands[i])
          /\ loadingTune' = FALSE
          /\ UNCHANGED <<loadingView, errorView>>
     ELSE /\ errorView' = FailureMessage(commands[i])
          /\ loadingView' = FALSE
          /\ UNCHANGED <<loadingTune, errorTune>>
  /\ UNCHANGED <<clampVars, laserVars, scanVars, tuneVars, snackbarMessage>>

(***************************************************************************)
(* ZurichHF2LIView: clamp, and repeated correction of a value              *)
(***************************************************************************)
\* how often a corrected value is corrected again
MaxApplications == 2

\* the numbers handed to clamp and to validateAndCorrectValue
ClampValues == {NaN, 0, 1, 2, 3, 1023, 1024, 40000, 48100, 48145, 61000,
                61100, 18500000, 20790000}
\* range bounds as in HARMONIC_MIN / HARMONIC_MAX, SIGNAL_RANGE_MIN / _MAX
ClampBounds == {0, 1, 2, 1023}

\* (mutation: '+' typed for ',' in Math.max(min, value))
clampAddingMin(value, min, max) ==
  IF value = NaN THEN NaN ELSE Min(max, min + value)

\* Math.min(max, Math.max(min, value)); NaN propagates through both
clamp(value, min, max) ==
  IF value = NaN THEN NaN ELSE Min(max, Max(min, value))

\* the value the next application starts from
LastOr(trail, first) == IF trail = << >> THEN first ELSE trail[Len(trail)]

\* const clamped = clamp(parsed, min, max), applied to its own result again
ApplyClamp ==
  /\ Len(clampTrail) < MaxApplications
  /\ clampTrail' =
       Append(clampTrail,
              clamp(LastOr(clampTrail, clampArgs.value),
                    clampArgs.min, clampArgs.max))
  /\ UNCHANGED <<laserVars, workflowVars, scanVars, tuneVars, clampArgs,
                 validateTrail>>

\* validateAndCorrectValue applied to a finite value and to its result again
ApplyValidate ==
  /\ clampArgs.value # NaN
  /\ Len(validateTrail) < MaxApplications
  /\ validateTrail' =
       Append(validateTrail,
              validateAndCorrectValue(LastOr(validateTrail, clampArgs.value)))
  /\ UNCHANGED <<laserVars, workflowVars, scanVars, tuneVars, clampArgs,
                 clampTrail>>

(***************************************************************************)
(* Specifications                                                          *)
(***************************************************************************)
Init ==
  /\ laserParams = [pulseRate |-> DefaultPulseRate, pulseWidth |-> DefaultPulseWidth]
  /\ laserFocus = "none"
  /\ deviceStatus = NullStatus
  /\ selectedScanMode = ""
  /\ units = "cm-1"
  /\ scanSettings = [startWavenumber |-> DefaultStart, endWavenumber |-> DefaultEnd,
                     stepSize |-> DefaultStepSize, scanSpeed |-> DefaultScanSpeed,
                     numberOfScans |-> 1, infiniteScans |-> FALSE]
  /\ multiSpectralEntries = << >>
  /\ nextId = 1
  /\ numberOfScans = 1
  /\ infiniteScans = FALSE
  /\ loading = FALSE
  /\ error = NULL
  /\ pending = << >>
  /\ loopCount = 0
  /\ prevPercentRef = NoValue
  /\ prevInProgressRef = FALSE
  /\ msBaselineScanNumRef = NoValue
  /\ msElementsRef = 0
  /\ prevModeRef = NULL
  /\ scanFocus = "none"
  /\ tuneWavenumber = DefaultStart
  /\ tuneUnits = "cm-1"
  /\ tuneFocus = FALSE
  /\ loadingTune = FALSE
  /\ errorTune = NULL
  /\ snackbarMessage = NULL
  /\ loadingView = FALSE
  /\ errorView = NULL
  /\ commands = << >>
  /\ clampArgs = [value |-> 0, min |-> 0, max |-> 0]
  /\ clampTrail = << >>
  /\ validateTrail = << >>

\* TuningControls: handleTune and handleEmit called in every status
WorkflowNext ==
  \/ \E st \in WorkflowSamples : Telemetry(st)
  \/ handleTune
  \/ handleEmit
  \/ \E i \in 1..MaxInFlight : \E a \in {"ok", "error"} : CommandAnswers(i, a)
  \/ \E i \in 1..MaxInFlight : TuningCommandDone(i)
  \/ \E i \in 1..MaxInFlight : CommandFailed(i)

SpecWorkflow == Init /\ [][WorkflowNext]_vars

\* handleDisarm of DaylightMIRcatView and of TuningControls
DisarmNext ==
  \/ \E st \in DisarmSamples : Telemetry(st)
  \/ \E c \in Components : handleDisarm(c)
  \/ \E i \in 1..MaxInFlight : \E a \in {"ok", "error"} : CommandAnswers(i, a)
  \/ \E i \in 1..MaxInFlight : DisarmAfterEmissionOff(i)
  \/ \E i \in 1..MaxInFlight : \E st \in DisarmSamples : \E fetched \in BOOLEAN :
       ViewDisarmed(i, st, fetched)
  \/ \E i \in 1..MaxInFlight : TuningCommandDone(i)
  \/ \E i \in 1..MaxInFlight : CommandFailed(i)

SpecDisarm == Init /\ [][DisarmNext]_vars

\* the arguments of the correcting functions and the active unit are free
InitClamp ==
  /\ laserParams = [pulseRate |-> DefaultPulseRate, pulseWidth |-> DefaultPulseWidth]
  /\ laserFocus = "none"
  /\ deviceStatus = NullStatus
  /\ selectedScanMode = ""
  /\ units \in Units
  /\ scanSettings = [startWavenumber |-> DefaultStart, endWavenumber |-> DefaultEnd,
                     stepSize |-> DefaultStepSize, scanSpeed |-> DefaultScanSpeed,
                     numberOfScans |-> 1, infiniteScans |-> FALSE]
  /\ multiSpectralEntries = << >>
  /\ nextId = 1
  /\ numberOfScans = 1
  /\ infiniteScans = FALSE
  /\ loading = FALSE
  /\ error = NULL
  /\ pending = << >>
  /\ loopCount = 0
  /\ prevPercentRef = NoValue
  /\ prevInProgressRef = FALSE
  /\ msBaselineScanNumRef = NoValue
  /\ msElementsRef = 0
  /\ prevModeRef = NULL
  /\ scanFocus = "none"
  /\ tuneWavenumber = DefaultStart
  /\ tuneUnits = "cm-1"
  /\ tuneFocus = FALSE
  /\ loadingTune = FALSE
  /\ errorTune = NULL
  /\ snackbarMessage = NULL
  /\ loadingView = FALSE
  /\ errorView = NULL
  /\ commands = << >>
  /\ clampArgs \in {a \in [value : ClampValues, min : ClampBounds,
                           max : ClampBounds] : a.min <= a.max}
  /\ clampTrail = << >>
  /\ validateTrail = << >>

ClampNext ==
  \/ ApplyClamp
  \/ ApplyValidate

SpecClamp == InitClamp /\ [][ClampNext]_vars

\* LaserSettingsPanel: edits of the two pulse fields
LaserNext ==
  \/ \E v \in PulseRateInputs : ChangePulseRate(v)
  \/ handlePulseRateChange
  \/ \E v \in PulseWidthInputs : ChangePulseWidth(v)
  \/ handlePulseWidthChange

SpecLaser == Init /\ [][LaserNext]_vars

\* ScanModePanel: the loop-count effect under the telemetry of sweep and
\* step scans
SweepNext ==
  \E st \in SweepSamples : Telemetry(st)

SpecSweep == Init /\ [][SweepNext]_vars

\* ScanModePanel: the loop-count effect under the telemetry of multispectral
\* scans, with the entry list edited meanwhile
MultispectralNext ==
  \/ \E st \in MultispectralSamples : Telemetry(st)
  \/ handleScanModeSelect("multispectral")
  \/ addMultiSpectralEntry(DefaultStart, 100, 100)

SpecMultispectral == Init /\ [][MultispectralNext]_vars

\* the status records the handler specifications feed in
HandlerSamples ==
  StatusSamples({TRUE}, {FALSE}, {NULL}, {NoValue}, {NoValue})
  \cup StatusSamples({TRUE}, {TRUE}, {"multispectral"}, {10}, {0})

\* ScanModePanel: the Start and Stop buttons, the device's answers and the
\* status updates
PanelNext ==
  \/ \E st \in PanelSamples : Telemetry(st)
  \/ \E m \in ScanModes : handleScanModeSelect(m)
  \/ addMultiSpectralEntry(DefaultStart, 100, 100)
  \/ \E id \in 1..MaxEntryId : ClickDelete(id)
  \/ ClickStart
  \/ ClickStop
  \/ \E i \in 1..MaxInFlight : \E a \in {"ok", "error"} : DeviceAnswers(i, a)
  \/ \E i \in 1..MaxInFlight :
       \E st \in PanelSamples \cup {deviceStatus} : ResumeAfterSuccess(i, st)
  \/ \E i \in 1..MaxInFlight : ResumeAfterFailure(i)
  \/ DismissError

SpecPanel == Init /\ [][PanelNext]_vars

\* ScanModePanel: the handlers called as the operations start() and stop(),
\* whatever the buttons show
HandlerNext ==
  \/ \E st \in HandlerSamples : Telemetry(st)
  \/ handleScanModeSelect("multispectral")
  \/ addMultiSpectralEntry(DefaultStart, 100, 100)
  \/ handleStartScan
  \/ handleStopScan
  \/ handleManualStep
  \/ \E i \in 1..MaxInFlight : \E a \in {"ok", "error"} : DeviceAnswers(i, a)
  \/ \E i \in 1..MaxInFlight :
       \E st \in HandlerSamples \cup {deviceStatus} : ResumeAfterSuccess(i, st)
  \/ \E i \in 1..MaxInFlight : ResumeAfterFailure(i)
  \/ DismissError

SpecHandlers == Init /\ [][HandlerNext]_vars

\* ScanModePanel: what Start Scan sends after the scan counts, the Infinite
\* checkboxes and the entry list were set
StartNext ==
  \/ \E st \in SettingsSamples : Telemetry(st)
  \/ \E m \in ScanModes : handleScanModeSelect(m)
  \/ \E v \in CountInputs : ChangeNumberOfScans(v)
  \/ \E checked \in BOOLEAN : ChangeInfiniteScans(checked)
  \/ \E v \in CountInputs : setNumberOfScans(v)
  \/ \E checked \in BOOLEAN : setInfiniteScans(checked)
  \/ \E wn \in EntryInputs : addMultiSpectralEntry(wn, 100, 100)
  \/ ClickStart
  \/ \E i \in 1..MaxInFlight : \E a \in {"ok", "error"} : DeviceAnswers(i, a)
  \/ \E i \in 1..MaxInFlight : ResumeAfterSuccess(i, deviceStatus)
  \/ \E i \in 1..MaxInFlight : ResumeAfterFailure(i)

SpecStart == Init /\ [][StartNext]_vars

\* ScanModePanel: what Start Scan sends after the display unit was switched
\* and wavenumbers were entered in it
StartUnitsNext ==
  \/ \E st \in SettingsSamples : Telemetry(st)
  \/ \E m \in ScanModes : handleScanModeSelect(m)
  \/ \E u \in Units : handleUnitChange(u)
  \/ \E v \in EndInputs : ChangeScanField("startWavenumber", v)
  \/ BlurScanField("startWavenumber")
  \/ \E wn \in EntryInputs : addMultiSpectralEntry(wn, 100, 100)
  \/ ClickStart
  \/ \E i \in 1..MaxInFlight : \E a \in {"ok", "error"} : DeviceAnswers(i, a)
  \/ \E i \in 1..MaxInFlight : ResumeAfterSuccess(i, deviceStatus)
  \/ \E i \in 1..MaxInFlight : ResumeAfterFailure(i)

SpecStartUnits == Init /\ [][StartUnitsNext]_vars

\* ScanModePanel: edits of the wavenumber fields, of the entry list and of
\* the display units
SettingsNext ==
  \/ \E st \in SettingsSamples : Telemetry(st)
  \/ \E m \in {"sweep", "multispectral"} : handleScanModeSelect(m)
  \/ \E v \in WavenumberInputs : ChangeScanField("startWavenumber", v)
  \/ BlurScanField("startWavenumber")
  \/ \E v \in EndInputs : ChangeScanField("endWavenumber", v)
  \/ BlurScanField("endWavenumber")
  \/ \E u \in Units : handleUnitChange(u)
  \/ \E wn \in EntryInputs \cup {NaN} : \E d \in TimeInputs : \E o \in TimeInputs :
       addMultiSpectralEntry(wn, d, o)
  \/ \E id \in 1..MaxEntryId : ClickDelete(id)
  \/ \E id \in 1..MaxEntryId : \E v \in EndInputs :
       BlurEntryWavenumber(id, v)

SpecSettings == Init /\ [][SettingsNext]_vars

\* TuningControls: edits of the Target field and of its display units
TuningNext ==
  \/ \E st \in SettingsSamples \cup {NullStatus} : Telemetry(st)
  \/ \E v \in TargetInputs : ChangeTuneWavenumber(v)
  \/ handleWavenumberBlur
  \/ \E u \in Units : handleTuneUnitChange(u)

SpecTuning == Init /\ [][TuningNext]_vars

(***************************************************************************)
(* Properties of LaserSettingsPanel (SpecLaser)                            *)
(***************************************************************************)
\* C1: whenever a setter has returned (no pulse field is being edited), the
\* stored pair has a duty cycle of at most 30 %, i.e. pulseRate * pulseWidth
\* is at most 300,000,000.
DutyCycleAtMostThirty ==
  laserFocus = "none" =>
    LET hi == (laserParams.pulseRate \div 10000) * laserParams.pulseWidth
        lo == (laserParams.pulseRate % 10000) * laserParams.pulseWidth
        q == hi + (lo \div 10000)
        r == lo % 10000
    IN  q < 30000 \/ (q = 30000 /\ r = 0)

\* a setter has lowered the pulse width to reach exactly 30 %
DutyCycleWitness ==
  /\ laserFocus = "none"
  /\ laserParams = [pulseRate |-> 3000000, pulseWidth |-> 100]

\* C2: whenever a setter has returned, 10 <= pulseRate <= 3,000,000 and
\* 20 <= pulseWidth <= 1000.
PulseParametersInBounds ==
  laserFocus = "none" =>
    /\ 10 <= laserParams.pulseRate /\ laserParams.pulseRate <= 3000000
    /\ 20 <= laserParams.pulseWidth /\ laserParams.pulseWidth <= 1000

\* both setters have clamped: the rate from below, the width from above
PulseParametersWitness ==
  /\ laserFocus = "none"
  /\ laserParams = [pulseRate |-> 10, pulseWidth |-> 1000]

\* pulseRate * pulseWidth <= 300,000,000, the product taken in two digits of
\* base 10000
ProductWithinThirtyPercent(rate, width) ==
  LET hi == (rate \div 10000) * width
      lo == (rate % 10000) * width
      q == hi + (lo \div 10000)
      r == lo % 10000
  IN  q < 30000 \/ (q = 30000 /\ r = 0)

\* value clamped to [lo, hi]
ClampedTo(value, lo, hi) ==
  IF value < lo THEN lo ELSE IF value > hi THEN hi ELSE value

\* the step is the commit of the edited pulse rate / pulse width
CommitsPulseRate == laserFocus = "pulseRate" /\ laserFocus' = "none"
CommitsPulseWidth == laserFocus = "pulseWidth" /\ laserFocus' = "none"

\* C11 as stated: with pulseRate 2,000,000 Hz stored, setPulseWidth(500)
\* stores pulseWidth 150 ns and a duty cycle of at most 30 %.
WidthEditIsLoweredToLimit ==
  [][(/\ CommitsPulseWidth
      /\ laserParams = [pulseRate |-> 2000000, pulseWidth |-> 500]) =>
       /\ laserParams'.pulseWidth = 150
       /\ ProductWithinThirtyPercent(laserParams'.pulseRate,
                                     laserParams'.pulseWidth)]_vars

\* C11, amended: with pulseRate 2,000,000 Hz stored, setPulseWidth(500)
\* stores pulseWidth 500 ns and lowers pulseRate to 600,000 Hz
\* (= floor(30*1e9/(500*100))), a duty cycle of exactly 30 %.
WidthEditLowersRate ==
  [][(/\ CommitsPulseWidth
      /\ laserParams = [pulseRate |-> 2000000, pulseWidth |-> 500]) =>
       laserParams' = [pulseRate |-> 600000, pulseWidth |-> 500]]_vars

\* the pair stored by setPulseWidth(500)
WidthEditLowersRateWitness ==
  /\ laserFocus = "none"
  /\ laserParams = [pulseRate |-> 600000, pulseWidth |-> 500]

\* C12: when the clamped new value and the other field give a duty cycle of
\* at most 30 % (exactly 30 % included), the setter stores the clamped new
\* value and leaves the other field as it was.
NoAdjustmentUpToLimit ==
  [][/\ CommitsPulseRate =>
          LET c == ClampedTo(laserParams.pulseRate, 10, 3000000)
          IN  ProductWithinThirtyPercent(c, laserParams.pulseWidth) =>
                laserParams' = [pulseRate |-> c,
                                pulseWidth |-> laserParams.pulseWidth]
     /\ CommitsPulseWidth =>
          LET c == ClampedTo(laserParams.pulseWidth, 20, 1000)
          IN  ProductWithinThirtyPercent(laserParams.pulseRate, c) =>
                laserParams' = [pulseRate |-> laserParams.pulseRate,
                                pulseWidth |-> c]]_vars

\* rate 300,000 Hz and width 1000 ns: exactly 30 %
NoAdjustmentWitness ==
  /\ laserFocus = "none"
  /\ laserParams = [pulseRate |-> 300000, pulseWidth |-> 1000]

\* C13: setPulseRate(r) stores r clamped to [10, 3,000,000] as the pulse
\* rate and setPulseWidth(w) stores w clamped to [20, 1000] as the pulse
\* width; only the other field is adjusted.
CommittedEditIsKept ==
  [][/\ CommitsPulseRate =>
          laserParams'.pulseRate = ClampedTo(laserParams.pulseRate, 10, 3000000)
     /\ CommitsPulseWidth =>
          laserParams'.pulseWidth = ClampedTo(laserParams.pulseWidth, 20, 1000)]_vars

\* setPulseRate(1,500,000) kept the rate and lowered a width of 500 ns to 200
CommittedEditWitness ==
  /\ laserFocus = "none"
  /\ laserParams = [pulseRate |-> 1500000, pulseWidth |-> 200]

\* C14 as stated: in every reachable state, the states between an edit of
\* a field and its commit included, the stored pair has a duty cycle of at
\* most 30 %.
DutyCycleNeverExceedsThirty ==
  ProductWithinThirtyPercent(laserParams.pulseRate, laserParams.pulseWidth)

\* C14, amended: the pair a setter stores has a duty cycle of at most 30 %
\* and both fields are written in that one step; between an edit and its
\* commit only the edited field holds the typed value, the other field still
\* holds its committed value inside its bounds.
OnlyEditedFieldUncommitted ==
  [][/\ laserFocus' = "none" =>
          ProductWithinThirtyPercent(laserParams'.pulseRate,
                                     laserParams'.pulseWidth)
     /\ laserFocus' = "pulseRate" =>
          /\ laserParams'.pulseWidth = laserParams.pulseWidth
          /\ 20 <= laserParams'.pulseWidth /\ laserParams'.pulseWidth <= 1000
     /\ laserFocus' = "pulseWidth" =>
          /\ laserParams'.pulseRate = laserParams.pulseRate
          /\ 10 <= laserParams'.pulseRate
          /\ laserParams'.pulseRate <= 3000000]_vars

\* 3,000,000 Hz typed over a width of 150 ns: 45 % until the commit
UncommittedEditWitness ==
  /\ laserFocus = "pulseRate"
  /\ laserParams = [pulseRate |-> 3000000, pulseWidth |-> 150]

(***************************************************************************)
(* Properties of handleStartScan and handleStopScan                        *)
(***************************************************************************)
\* C3: a call of handleStartScan in multispectral mode with fewer than two
\* entries ends with the error and sends nothing; with two or more entries it
\* sends the start command with one list element per entry.  No multispectral
\* start command with fewer than two list elements is ever in flight.
MultispectralStartGuard ==
  [][/\ (handleStartScan /\ selectedScanMode = "multispectral") =>
          IF Len(multiSpectralEntries) < 2
          THEN error' = ErrTwoEntries /\ pending' = pending
          ELSE /\ error' = NULL
               /\ Len(pending') = Len(pending) + 1
               /\ pending'[Len(pending')].kind = "startMultispectralScan"
               /\ Len(pending'[Len(pending')].wavelength_list) =
                    Len(multiSpectralEntries)
     /\ \A i \in 1..Len(pending') :
          pending'[i].kind = "startMultispectralScan" =>
            Len(pending'[i].wavelength_list) >= 2]_vars

\* a start with one entry was refused and nothing was sent
MultispectralStartWitness ==
  /\ error = ErrTwoEntries
  /\ selectedScanMode = "multispectral"
  /\ Len(multiSpectralEntries) = 1
  /\ pending = << >>
  /\ ~loading

\* C7: when the handler resumes after the device rejected its start or stop
\* command, the error is shown and the device status (in progress, active
\* mode), the loop count, the previous-percent reference and the multispectral
\* baseline are what they were.
RejectionKeepsRuntimeState ==
  [][(\E i \in 1..Len(pending) :
        /\ pending[i].answer = "error"
        /\ pending' = RemoveAt(pending, i)) =>
       /\ error' = ErrDevice
       /\ deviceStatus' = deviceStatus
       /\ loopCount' = loopCount
       /\ prevPercentRef' = prevPercentRef
       /\ msBaselineScanNumRef' = msBaselineScanNumRef
       /\ prevInProgressRef' = prevInProgressRef
       /\ prevModeRef' = prevModeRef]_vars

\* a stop command was rejected while a scan was running
RejectionWitness ==
  /\ error = ErrDevice
  /\ pending = << >>
  /\ ~loading
  /\ deviceStatus.scan_in_progress
  /\ loopCount = 1

(***************************************************************************)
(* Properties of the loop-count effect                                     *)
(***************************************************************************)
\* a multispectral scan is running with a captured baseline
MultispectralRunning ==
  /\ deviceStatus.scan_in_progress
  /\ deviceStatus.current_scan_mode = "multispectral"
  /\ prevInProgressRef
  /\ msBaselineScanNumRef # NoValue
  /\ msElementsRef >= 1

\* C4 as stated: in a running multispectral scan whose loop count equals
\* floor((scanNumber - b) / N) + 1, the next sample with a scan number that
\* is not lower leaves the loop count equal to floor((scanNumber - b) / N) + 1,
\* whatever percent it reports; the first sample of the scan gives 1.
LoopCountIsScanCounterFormula ==
  [][/\ (/\ ~deviceStatus.scan_in_progress
         /\ deviceStatus'.scan_in_progress
         /\ deviceStatus'.current_scan_mode = "multispectral") =>
          loopCount' = 1
     /\ (/\ MultispectralRunning
         /\ deviceStatus.current_scan_number # NoValue
         /\ deviceStatus.current_scan_number >= msBaselineScanNumRef
         /\ loopCount =
              ((deviceStatus.current_scan_number - msBaselineScanNumRef)
                 \div msElementsRef) + 1
         /\ deviceStatus'.scan_in_progress
         /\ deviceStatus'.current_scan_mode = "multispectral"
         /\ deviceStatus'.current_scan_number # NoValue
         /\ deviceStatus'.current_scan_number >=
              deviceStatus.current_scan_number) =>
          loopCount' =
            ((deviceStatus'.current_scan_number - msBaselineScanNumRef')
               \div msElementsRef') + 1]_vars

\* C4, amended: in a running multispectral scan with baseline b and N
\* captured entries, a sample that differs from the one before it in percent
\* or scan number and has a scan number >= b leaves the loop count at
\* the larger of floor((scanNumber - b) / N) + 1 and the previous loop count,
\* the latter raised by one when the percent wrapped around; the baseline and
\* N stay as captured and the first sample of the scan gives 1.
LoopCountAtLeastScanCounterFormula ==
  [][/\ (/\ ~deviceStatus.scan_in_progress
         /\ deviceStatus'.scan_in_progress
         /\ deviceStatus'.current_scan_mode = "multispectral") =>
          loopCount' = 1
     /\ (/\ MultispectralRunning
         /\ deviceStatus'.scan_in_progress
         /\ deviceStatus'.current_scan_mode = "multispectral"
         /\ \/ deviceStatus'.current_scan_percent #
                 deviceStatus.current_scan_percent
            \/ deviceStatus'.current_scan_number #
                 deviceStatus.current_scan_number
         /\ deviceStatus'.current_scan_number # NoValue
         /\ deviceStatus'.current_scan_number >= msBaselineScanNumRef) =>
          LET byCounter ==
                ((deviceStatus'.current_scan_number - msBaselineScanNumRef)
                   \div msElementsRef) + 1
              p == prevPercentRef
              c == deviceStatus'.current_scan_percent
              wrapped == /\ p # NoValue
                         /\ c # NoValue
                         /\ (p > 80 /\ c < 30) \/ (p - c > 50)
              byPercent == IF wrapped THEN loopCount + 1 ELSE loopCount
          IN  /\ loopCount' = Max(byCounter, byPercent)
              /\ msBaselineScanNumRef' = msBaselineScanNumRef
              /\ msElementsRef' = msElementsRef]_vars

\* two entries, baseline 0, scan number 4: the third loop
LoopCountByScanCounterWitness ==
  /\ MultispectralRunning
  /\ msElementsRef = 2
  /\ msBaselineScanNumRef = 0
  /\ deviceStatus.current_scan_number = 4
  /\ loopCount = 3

\* C5: while the scan stays in progress and the mode stays multispectral, no
\* step lowers the loop count, whatever scan number the sample reports.
MultispectralLoopCountMonotonic ==
  [][(/\ deviceStatus.scan_in_progress
      /\ deviceStatus.current_scan_mode = "multispectral"
      /\ deviceStatus'.scan_in_progress
      /\ deviceStatus'.current_scan_mode = "multispectral") =>
       loopCount' >= loopCount]_vars

\* the scan counter is back at the baseline and the third loop is kept
MonotonicWitness ==
  /\ MultispectralRunning
  /\ loopCount = 3
  /\ deviceStatus.current_scan_number = msBaselineScanNumRef
  /\ prevPercentRef = 90

\* C6: in a sweep or step scan the first sample gives loop count 1, and a
\* later sample of the same scan raises the loop count by exactly one if
\* (previous percent > 80 and percent < 30) or (previous percent - percent
\* > 50), and leaves it unchanged otherwise.
PercentWrapCountsLoops ==
  [][/\ (/\ ~deviceStatus.scan_in_progress
         /\ deviceStatus'.scan_in_progress
         /\ deviceStatus'.current_scan_mode \in {"sweep", "step"}) =>
          loopCount' = 1
     /\ (/\ deviceStatus.scan_in_progress
         /\ deviceStatus'.scan_in_progress
         /\ deviceStatus.current_scan_mode \in {"sweep", "step"}
         /\ deviceStatus'.current_scan_mode = deviceStatus.current_scan_mode
         /\ deviceStatus.current_scan_percent # NoValue
         /\ deviceStatus'.current_scan_percent # NoValue) =>
          LET p == deviceStatus.current_scan_percent
              c == deviceStatus'.current_scan_percent
          IN  loopCount' =
                IF (p > 80 /\ c < 30) \/ (p - c > 50)
                THEN loopCount + 1 ELSE loopCount]_vars

\* the end of the percent sequence 10, 50, 90, 15, 60
PercentWrapWitness ==
  /\ deviceStatus.scan_in_progress
  /\ deviceStatus.current_scan_mode = "sweep"
  /\ deviceStatus.current_scan_percent = 60
  /\ prevPercentRef = 60
  /\ loopCount = 2

\* C8 as stated: a sample that reports no scan in progress never raises the
\* loop count and leaves no baseline behind: neither a previous percent nor a
\* multispectral baseline scan number is held once it is processed.
IdleSampleIgnored ==
  [][~deviceStatus'.scan_in_progress =>
       /\ loopCount' <= loopCount
       /\ prevPercentRef' = NoValue
       /\ msBaselineScanNumRef' = NoValue]_vars

ValidatedValueInRange ==
  [][/\ (scanFocus # "none" /\ scanFocus' = "none") =>
          /\ scanSettings'[scanFocus] >= RangeMin(units')
          /\ scanSettings'[scanFocus] <= RangeMax(units')
     /\ units' = units =>
          \A i \in 1..Len(multiSpectralEntries') :
            (\A j \in 1..Len(multiSpectralEntries) :
               multiSpectralEntries[j] # multiSpectralEntries'[i]) =>
              /\ multiSpectralEntries'[i].wavenumber >= RangeMin(units')
              /\ multiSpectralEntries'[i].wavenumber <= RangeMax(units')]_vars

(***************************************************************************)
(* Properties of the multispectral entry list and of the display units     *)
(***************************************************************************)
\* C15 as stated: addMultiSpectralEntry leaves the list and nextId unchanged
\* when the wavenumber is not finite or a time is not positive; otherwise it
\* appends one entry whose wavenumber is the input clamped to the range of
\* the current unit and whose times are the inputs, and keeps the entries
\* that were there.
AddAppendsClampedEntry ==
  [][\A wn \in EntryInputs \cup {NaN} : \A d \in TimeInputs : \A o \in TimeInputs :
       addMultiSpectralEntry(wn, d, o) =>
         IF wn = NaN \/ d = NaN \/ d <= 0 \/ o = NaN \/ o <= 0
         THEN /\ multiSpectralEntries' = multiSpectralEntries
              /\ nextId' = nextId
         ELSE LET n == Len(multiSpectralEntries)
              IN  /\ Len(multiSpectralEntries') = n + 1
                  /\ SubSeq(multiSpectralEntries', 1, n) = multiSpectralEntries
                  /\ multiSpectralEntries'[n + 1].wavenumber =
                       ClampedTo(wn, RangeMin(units), RangeMax(units))
                  /\ multiSpectralEntries'[n + 1].dwellTime = d
                  /\ multiSpectralEntries'[n + 1].offTime = o]_vars

\* C16: the ids of the entries are pairwise distinct and all below nextId,
\* the id the next entry gets; nextId never decreases, so the id of a removed
\* entry is not assigned again.
EntryIdsNeverReused ==
  [][/\ \A i \in 1..Len(multiSpectralEntries') :
          /\ multiSpectralEntries'[i].id < nextId'
          /\ \A j \in 1..Len(multiSpectralEntries') :
               i # j => multiSpectralEntries'[i].id # multiSpectralEntries'[j].id
     /\ nextId' >= nextId
     /\ \A i \in 1..Len(multiSpectralEntries') :
          (\A j \in 1..Len(multiSpectralEntries) :
             multiSpectralEntries[j].id # multiSpectralEntries'[i].id) =>
            multiSpectralEntries'[i].id >= nextId]_vars

\* entry 2 was removed and the entry added after it got id 3
EntryIdsWitness ==
  /\ Len(multiSpectralEntries) = 2
  /\ multiSpectralEntries[1].id = 1
  /\ multiSpectralEntries[2].id = 3

\* C17: a list that holds an entry never becomes empty, and a step that
\* shortens the list removes exactly one entry, by its id, from a list of two
\* or more.
ListKeepsOneEntry ==
  [][/\ Len(multiSpectralEntries) >= 1 => Len(multiSpectralEntries') >= 1
     /\ Len(multiSpectralEntries') < Len(multiSpectralEntries) =>
          /\ Len(multiSpectralEntries) >= 2
          /\ Len(multiSpectralEntries') = Len(multiSpectralEntries) - 1
          /\ \E i \in 1..Len(multiSpectralEntries) :
               multiSpectralEntries' =
                 SelectSeq(multiSpectralEntries,
                           LAMBDA e : e.id # multiSpectralEntries[i].id)]_vars

\* entry 1 was removed from a list of two; the last row cannot be removed
ListKeepsOneEntryWitness ==
  /\ Len(multiSpectralEntries) = 1
  /\ multiSpectralEntries[1].id = 2
  /\ nextId = 3

\* C18: handleUnitChange with the unit that is already active leaves the
\* start value, the end value, every entry and the unit unchanged.
SameUnitChangesNothing ==
  [][\A u \in Units :
       (handleUnitChange(u) /\ u = units) =>
         /\ scanSettings' = scanSettings
         /\ multiSpectralEntries' = multiSpectralEntries
         /\ units' = units]_vars

\* micrometres are active, the values are converted and the unit select is
\* enabled: selecting micrometres again is possible
SameUnitWitness ==
  /\ units = "um"
  /\ canInteract
  /\ selectedScanMode = "multispectral"
  /\ scanFocus = "none"
  /\ scanSettings.startWavenumber = 54054
  /\ Len(multiSpectralEntries) >= 1

\* C19 as stated: when the unit is switched, the start and end value and the
\* wavenumber of every entry are converted by v -> 10000 / v, no setting
\* labelled with the unit (step size, scan speed) keeps its old value, and
\* the list length, order, ids and times are unchanged.
UnitSwitchConvertsEverything ==
  [][units' # units =>
       /\ scanSettings'.startWavenumber =
            TenThousandOver(scanSettings.startWavenumber)
       /\ scanSettings'.endWavenumber =
            TenThousandOver(scanSettings.endWavenumber)
       /\ scanSettings'.stepSize # scanSettings.stepSize
       /\ scanSettings'.scanSpeed # scanSettings.scanSpeed
       /\ Len(multiSpectralEntries') = Len(multiSpectralEntries)
       /\ \A i \in 1..Len(multiSpectralEntries) :
            multiSpectralEntries'[i] =
              [multiSpectralEntries[i] EXCEPT
                 !.wavenumber = TenThousandOver(@)]]_vars

\* the error two conversions can add to v at the resolution 1 / Scale of the
\* stored numbers: (v^2 / 10000) * (1 / (2 * Scale)), and one unit
RoundTripTolerance(v) ==
  (((v \div Scale) + 1) * ((v \div Scale) + 1)) \div 20000 + 1

Distance(a, b) == IF a >= b THEN a - b ELSE b - a

\* C20: a unit switch stores the converted values, and converting a stored
\* value back gives the value before the switch within the tolerance of the
\* number representation, for the start value, the end value and every
\* entry: switching there and back restores them.
UnitSwitchRoundTrips ==
  [][units' # units =>
       LET back(v) == IF units = "um" THEN convertToMicrons(v)
                      ELSE convertToWavenumber(v)
           restored(old, new) ==
             /\ old > 0
             /\ new > 0
             /\ Distance(back(new), old) <= RoundTripTolerance(old)
       IN  /\ restored(scanSettings.startWavenumber,
                       scanSettings'.startWavenumber)
           /\ restored(scanSettings.endWavenumber,
                       scanSettings'.endWavenumber)
           /\ Len(multiSpectralEntries') = Len(multiSpectralEntries)
           /\ \A i \in 1..Len(multiSpectralEntries) :
                restored(multiSpectralEntries[i].wavenumber,
                         multiSpectralEntries'[i].wavenumber)]_vars

\* 1850.0 cm-1 after cm-1 -> micrometre -> cm-1: 5.4054 and back, 1850.0019
UnitSwitchRoundTripWitness ==
  /\ units = "cm-1"
  /\ scanFocus = "none"
  /\ scanSettings.startWavenumber # DefaultStart
  /\ Distance(scanSettings.startWavenumber, DefaultStart) <= 20
  /\ scanSettings.endWavenumber # DefaultEnd
  /\ Distance(scanSettings.endWavenumber, DefaultEnd)
       <= RoundTripTolerance(DefaultEnd)

(***************************************************************************)
(* Properties of the correcting functions (SpecClamp)                      *)
(***************************************************************************)
\* C21: clamping a clamped value again gives the clamped value, for every
\* value and every min <= max; validateAndCorrectValue applied again in the
\* same unit gives the value it gave the first time.
CorrectionIsIdempotent ==
  /\ \A i \in 1..Len(clampTrail) : clampTrail[i] = clampTrail[1]
  /\ \A i \in 1..Len(validateTrail) : validateTrail[i] = validateTrail[1]

\* 1024 clamped twice to [1, 1023], and 4.0 corrected twice in micrometres
CorrectionIsIdempotentWitness ==
  /\ clampArgs = [value |-> 1024, min |-> 1, max |-> 1023]
  /\ clampTrail = <<1023, 1023>>
  /\ units = "um"
  /\ Len(validateTrail) = 2
  /\ validateTrail[1] # clampArgs.value

ElementsPerLoopFixedDuringScan ==
  [][(/\ deviceStatus.scan_in_progress
      /\ deviceStatus.current_scan_mode = "multispectral"
      /\ deviceStatus' = deviceStatus
      /\ Len(multiSpectralEntries') # Len(multiSpectralEntries)) =>
       /\ ElementsPerLoop(msElementsRef', Len(multiSpectralEntries')) =
            ElementsPerLoop(msElementsRef, Len(multiSpectralEntries))
       /\ loopCount' = loopCount]_vars

\* a sample that reports the scan still in progress under a mode other than
\* the one of the sample before
ModeChangeMidScan ==
  /\ prevInProgressRef
  /\ deviceStatus'.scan_in_progress
  /\ prevModeRef # NULL
  /\ deviceStatus'.current_scan_mode # NULL
  /\ deviceStatus'.current_scan_mode # prevModeRef

InvalidWavenumberRejected ==
  [][/\ \A f \in {"startWavenumber", "endWavenumber"} :
          (scanFocus = f /\ scanFocus' = "none" /\ scanSettings[f] = 0) =>
            Distance(scanSettings'[f], RangeMin(units)) > Scale \div 100
     /\ \A id \in 1..MaxEntryId :
          BlurEntryWavenumber(id, NaN) =>
            multiSpectralEntries' = multiSpectralEntries]_vars

(***************************************************************************)
(* Properties of the start commands (SpecStart)                            *)
(***************************************************************************)
StartKinds == {"startSweepScan", "startStepScan", "startMultispectralScan"}

\* a step that sends a start command
SendsStart ==
  /\ Len(pending') = Len(pending) + 1
  /\ pending'[Len(pending')].kind \in StartKinds

\* C26 as stated: the number_of_scans of every start command is an integer
\* >= 1 or 0, and 0 only when Infinite is checked for the mode.
StartSendsValidScanCount ==
  [][SendsStart =>
       LET sent == pending'[Len(pending')]
           infinite == IF sent.kind = "startMultispectralScan"
                       THEN infiniteScans ELSE scanSettings.infiniteScans
       IN  /\ sent.number_of_scans >= 0
           /\ sent.number_of_scans = 0 => infinite]_vars

\* a wavenumber in cm-1 within the range of the laser
InLaserRange(wavenumber) == wavenumber >= WnMin /\ wavenumber <= WnMax

\* C27 as stated: every wavenumber of a start command is a number of cm-1
\* between 1638.81 and 2077.27, whichever unit is displayed.
StartSendsWavenumbersInRange ==
  [][SendsStart =>
       LET sent == pending'[Len(pending')]
       IN  IF sent.kind = "startMultispectralScan"
           THEN \A i \in 1..Len(sent.wavelength_list) :
                  InLaserRange(sent.wavelength_list[i].wavenumber)
           ELSE /\ InLaserRange(sent.start_wavenumber)
                /\ InLaserRange(sent.end_wavenumber)]_vars

(***************************************************************************)
(* The loop count while a scan is in progress (SpecSweep)                  *)
(***************************************************************************)
\* C28 as stated: whenever the last sample processed reports the scan in
\* progress, the loop count is at least 1.
LoopCountPositiveWhileScanning ==
  deviceStatus.scan_in_progress => loopCount >= 1

(***************************************************************************)
(* The order of the calls of handleDisarm (SpecDisarm)                     *)
(***************************************************************************)
\* the number of disarm calls among the calls q
DisarmCalls(q) ==
  Cardinality({i \in 1..Len(q) : q[i].kind = "disarmLaser"})

\* the call at position i is the emission-off call of a handleDisarm, resolved
EmissionOffSucceeded(q, i) ==
  /\ q[i].handler = "handleDisarm"
  /\ q[i].kind = "turnEmissionOff"
  /\ q[i].answer = "ok"

\* C29: a handleDisarm that starts while the status has emission_on sends
\* the emission-off call and no disarm call; one that starts while emission_on
\* is false sends the disarm call at once.  A disarm call is only ever sent by
\* such a start without emission, or in the place of an emission-off call of
\* handleDisarm that has succeeded; after a failed emission-off call the
\* handler ends with no disarm call sent.
DisarmOrdering ==
  [][/\ (\E c \in Components : handleDisarm(c)) =>
          /\ Len(commands') = Len(commands) + 1
          /\ commands'[Len(commands')].kind =
               IF deviceStatus.emission_on
               THEN "turnEmissionOff" ELSE "disarmLaser"
     /\ DisarmCalls(commands') > DisarmCalls(commands) =>
          \/ /\ \E c \in Components : handleDisarm(c)
             /\ ~deviceStatus.emission_on
          \/ \E i \in 1..Len(commands) :
               /\ EmissionOffSucceeded(commands, i)
               /\ DisarmAfterEmissionOff(i)
     /\ \A i \in 1..Len(commands) :
          (/\ commands[i].handler = "handleDisarm"
           /\ commands[i].kind = "turnEmissionOff"
           /\ commands[i].answer = "error"
           /\ CommandFailed(i)) =>
             DisarmCalls(commands') = DisarmCalls(commands)]_vars

\* Both components have stopped the emission and are waiting for their disarm
\* call, and a handleDisarm without emission has sent its disarm call at once.
DisarmOrderingWitness ==
  /\ snackbarMessage = "Emission stopped before disarming"
  /\ Len(commands) = 2
  /\ commands[1].kind = "disarmLaser"
  /\ commands[2].kind = "disarmLaser"
  /\ commands[2].answer = "none"
  /\ ~deviceStatus.emission_on

(***************************************************************************)
(* The workflow guard of TuningControls (SpecWorkflow)                     *)
(***************************************************************************)
\* the step sends a device call of the kind
Sends(kind) ==
  /\ Len(commands') = Len(commands) + 1
  /\ commands'[Len(commands')].kind = kind

\* C30: a tune call is sent only while the status is connected and armed, an
\* emission-on call only while it is connected, armed and has a
\* current_wavenumber that is present and not zero; a handleTune or handleEmit
\* whose validation fails sends no call, leaves the loading flag and the error
\* as they are, and sets the notification message.
WorkflowGuard ==
  [][/\ Sends("tuneToWavenumber") =>
          deviceStatus.connected /\ deviceStatus.armed
     /\ Sends("turnEmissionOn") =>
          /\ deviceStatus.connected
          /\ deviceStatus.armed
          /\ deviceStatus.current_wavenumber # NoValue
          /\ deviceStatus.current_wavenumber # 0
     /\ (/\ handleTune
         /\ ~(deviceStatus.connected /\ deviceStatus.armed)) =>
          /\ UNCHANGED <<commands, loadingTune, errorTune, deviceStatus>>
          /\ snackbarMessage' # NULL
     /\ (/\ handleEmit
         /\ ~(/\ deviceStatus.connected
              /\ deviceStatus.armed
              /\ deviceStatus.current_wavenumber \notin {NoValue, 0})) =>
          /\ UNCHANGED <<commands, loadingTune, errorTune, deviceStatus>>
          /\ snackbarMessage' # NULL]_vars

\* An armed laser whose current_wavenumber is zero: handleEmit was refused
\* with the notification, no call is in flight and nothing is loading.
WorkflowGuardWitness ==
  /\ snackbarMessage = "Please tune the laser before enabling emission."
  /\ deviceStatus.connected
  /\ deviceStatus.armed
  /\ deviceStatus.current_wavenumber = 0
  /\ commands = << >>
  /\ ~loadingTune

====
